---- MODULE Spec2Model ----
(***************************************************************************)
(* A model of the process supervision engine of process-manager            *)
(* (manager/manager.go with the POSIX termination of manager/unix.go).     *)
(*                                                                         *)
(* The registry pm.processes is the set `registry` of UUIDs; the           *)
(* *types.ProcessInfo objects live in `rec` (they outlive their registry   *)
(* entry, as the Go pointers do).  Every record owns one child, whose OS   *)
(* state is child[uuid].  Tasks are the calling contexts (Callers) and one *)
(* watcher goroutine per record (the task with the record's number).       *)
(*                                                                         *)
(* The monitoring facade ProcessManagerWithMonitor and its                 *)
(* ProcessMonitorManager (monitor/unix.go) are modelled by the variable    *)
(* `mon` and the actions of NextFacade.                                    *)
(***************************************************************************)
EXTENDS Integers, FiniteSets, Sequences

\* ---------------------------------------------------------------- bounds
\* Records (UUIDs) ever created.
MaxProcs == 3
\* Engine operations ever called by the calling contexts.
MaxCalls == 3
\* The same, in the behaviours checked for liveness.
MaxLiveCalls == 2

Ids == 1..MaxProcs
\* Two concurrent calling contexts, numbered after the watchers.
Callers == {MaxProcs + 1, MaxProcs + 2}
Tasks == Ids \cup Callers

\* What callers start: a long-running command that is restarted and a
\* short one that is not.
LaunchSpecs ==
    { [Name |-> "sleep", Args |-> <<"1">>, Restart |-> TRUE],
      [Name |-> "echo",  Args |-> <<"test">>, Restart |-> FALSE] }

VARIABLES
    registry,   \* pm.processes: the UUIDs stored in the map
    rec,        \* the ProcessInfo objects, by UUID
    child,      \* OS state of each record's child: none, alive, zombie, reaped
    nextId,     \* the next UUID util.GenerateUUID hands out
    shutdown,   \* pm.shutdown is closed
    thr,        \* the tasks: program counter, operation and locals
    leaked,     \* UUIDs a WaitForProcess goroutine still waits on after a timeout
    panicked,   \* the Go runtime has panicked (close of a closed channel)
    lineage,    \* history: which record each record replaced, and by which path
    stopped,    \* history: the UUIDs a StopProcess has returned success for
    calls,      \* history: engine operations called so far
    ev,         \* history: what the step just taken returned or spawned
    mon         \* the ProcessMonitorManager of the monitoring facade

vars ==
    <<registry, rec, child, nextId, shutdown, thr, leaked, panicked,
      lineage, stopped, calls, ev, mon>>

\* ---------------------------------------------------------------- records
\* types.ProcessInfo before StartProcess fills it (PID is the record's number).
NoRec ==
    [Name |-> "", Args |-> <<>>, Running |-> FALSE, Restart |-> FALSE,
     RestartCount |-> 0, EndTime |-> 0]

\* Mutation of NewRecord: Running is left false after the spawn.
NewRecordNotRunning(name, args, restart) ==
    [Name |-> name, Args |-> args, Running |-> FALSE, Restart |-> restart,
     RestartCount |-> 0, EndTime |-> 0]

\* The ProcessInfo StartProcess stores: Running set after cmd.Start succeeded.
NewRecord(name, args, restart) ==
    [Name |-> name, Args |-> args, Running |-> TRUE, Restart |-> restart,
     RestartCount |-> 0, EndTime |-> 0]

\* A task that is not running anything.  list is the slice the task's last
\* ListProcesses returned (pointers to records, as UUIDs), which the caller
\* holds until its next call; snap keeps, as history, what that slice showed
\* when it was returned.
IdleTask ==
    [pc |-> "idle", op |-> "none", id |-> 0, new |-> 0, n0 |-> 0,
     todo |-> {}, mid |-> {}, list |-> <<>>, snap |-> <<>>]

\* The goroutine `go pm.monitorProcess(uuid, processInfo)` as launched.
WatcherTask(i) ==
    [IdleTask EXCEPT !.pc = "wait", !.op = "watch", !.id = i]

\* A watcher goroutine that has returned (its deferred wg.Done has run).
DoneTask == [IdleTask EXCEPT !.pc = "done", !.op = "watch"]

\* History of a record: the record it replaced (0: none), the path that
\* created it (start, explicit, auto) and the Restart it was created with.
NoLineage == [pred |-> 0, via |-> "none", rq |-> FALSE]

\* The step just taken neither returned to a caller nor spawned a successor.
NoEvent ==
    [kind |-> "none", by |-> 0, op |-> "none", id |-> 0, res |-> "none",
     new |-> 0, rq |-> FALSE, n0 |-> 0]

\* The HistorySize NewProcessMonitorManager configures (60 in the source,
\* scaled down).
DefaultHistorySize == 3
\* Samples a monitor takes in all (each sample is known by its number, which
\* stands for its Timestamp).
MaxSamples == 4

\* NewProcessMonitorManager(): not running, stopChan open, no sampling loop,
\* nothing monitored, Interval 2s and the default HistorySize.  pids are the
\* keys of monitoredProcesses (a record's PID is its number) and names its
\* values, has are the keys of statsHistory and hist its values, taken counts
\* the samples; todo and snapSize are the locals of a collectStats in
\* progress (the PIDs of its copy still to visit, the copied HistorySize).
NewProcessMonitorManager ==
    [running |-> FALSE, closed |-> FALSE, loops |-> 0, pids |-> {},
     names |-> [p \in Ids |-> "none"],
     has |-> {}, hist |-> [p \in Ids |-> <<>>],
     config |-> [Interval |-> 2000, HistorySize |-> DefaultHistorySize],
     taken |-> 0,
     todo |-> {}, snapSize |-> 0]

\* The manager as NewProcessManager returns it, with `spent` calls of the
\* model's budget of calls already used up.
InitWith(spent) ==
    /\ registry = {}
    /\ rec = [i \in Ids |-> NoRec]
    /\ child = [i \in Ids |-> "none"]
    /\ nextId = 1
    /\ shutdown = FALSE
    /\ thr = [t \in Tasks |-> IdleTask]
    /\ leaked = {}
    /\ panicked = FALSE
    /\ lineage = [i \in Ids |-> NoLineage]
    /\ stopped = {}
    /\ calls = spent
    /\ ev = NoEvent
    /\ mon = NewProcessMonitorManager

Init == InitWith(0)

\* ---------------------------------------------------------------- the OS
\* The process (or its group) still has an entry in the process table.
Exists(st) == st \in {"alive", "zombie"}

\* syscall.Kill(-pid, SIGTERM): no such group gives ESRCH; otherwise the signal
\* is delivered (the child dies or handles it and lives on) or refused (EPERM).
SigTerm(st) ==
    IF Exists(st)
    THEN { [child |-> st, err |-> "nil"],
           [child |-> "zombie", err |-> "nil"],
           [child |-> st, err |-> "EPERM"] }
    ELSE { [child |-> st, err |-> "ESRCH"] }

\* isProcessRunning: syscall.Kill(pid, 0) == nil.  Any error, EPERM as well as
\* ESRCH, reads as "not running".
IsProcessRunning(st) == IF Exists(st) THEN {TRUE, FALSE} ELSE {FALSE}

\* Mutation of KillAfterGrace: SIGKILL is sent whatever the probe says.
KillAfterGraceNoProbe(st) ==
    IF Exists(st)
    THEN { [child |-> "zombie", err |-> "nil"], [child |-> st, err |-> "EPERM"] }
    ELSE { [child |-> st, err |-> "nil"] }

\* killProcessPlatform after its grace sleep: probe, then SIGKILL to the group
\* if the probe says running.  The error is what killProcess returns.
KillAfterGrace(st) ==
    { [child |-> st, err |-> "nil"] : r \in IsProcessRunning(st) \ {TRUE} }
    \cup
    (IF TRUE \in IsProcessRunning(st)
     THEN { [child |-> "zombie", err |-> "nil"], [child |-> st, err |-> "EPERM"] }
     ELSE {})

\* cmd.Start(): succeeds or fails; the model's supply of records exhausted
\* counts as the OS refusing to create the process.
SpawnResults == IF nextId <= MaxProcs THEN {TRUE, FALSE} ELSE {FALSE}

\* Mutation of Delete: the entry stays in the map.
DeleteKeeps(reg, u) == reg

\* pm.processes.Delete(uuid).
Delete(reg, u) == reg \ {u}

\* sync.Map.Range: the stored keys, each visited once, in some order.
RECURSIVE Range(_)
Range(reg) ==
    IF reg = {}
    THEN <<>>
    ELSE LET u == CHOOSE x \in reg : TRUE IN <<u>> \o Range(reg \ {u})

\* ListProcesses(): the records Range visits, appended to a list (as UUIDs).
ListProcesses == Range(registry)

\* Mutation of LaunchSpecOf: the arguments are dropped.
LaunchSpecNoArgs(r) == [Name |-> r.Name, Args |-> <<>>, Restart |-> r.Restart]

\* What RestartProcess hands to StartProcess: the old record's Name, Args and
\* Restart.
LaunchSpecOf(r) == [Name |-> r.Name, Args |-> r.Args, Restart |-> r.Restart]

\* ---------------------------------------------------------------- helpers
\* Task t, whose record is `me`, returns `result` (and the new UUID n) from its
\* operation: a caller is idle again, a watcher that called RestartProcess
\* returns from monitorProcess.  `tasks` is the task table to update.
Returns(tasks, t, me, result, n, q) ==
    /\ thr' = [tasks EXCEPT ![t] = IF t \in Callers THEN IdleTask ELSE DoneTask]
    /\ ev' = [kind |-> "ret", by |-> t,
              op |-> IF t \in Callers THEN me.op ELSE "Restart",
              id |-> me.id, res |-> result, new |-> n, rq |-> q, n0 |-> me.n0]

\* Task t goes on as `me`, nothing returned.
Goes(t, me) ==
    /\ thr' = [thr EXCEPT ![t] = me]
    /\ ev' = NoEvent

\* A calling context takes up operation o on UUID u.
Enter(o, u) ==
    [IdleTask EXCEPT !.op = o, !.id = u]

\* The UUIDs a caller may name: every UUID handed out, and one that never was.
Nameable == {u \in Ids : u <= nextId}

\* Calling contexts are interchangeable: the second one is used only for a
\* call that overlaps one of the first.
CanCall(c) ==
    /\ c \in Callers
    /\ thr[c].pc = "idle"
    /\ calls < MaxCalls
    /\ \A d \in Callers : d < c => thr[d].pc # "idle"

\* ---------------------------------------------------------------- StartProcess
\* Mutation of StartProcess: the record is stored before cmd.Start is tried,
\* and stays when the spawn fails.
StartProcessStoresFirst(reg, name, args, restart, pv, ok) ==
    /\ rec' = [rec EXCEPT ![nextId] =
                 [NewRecord(name, args, restart) EXCEPT !.Running = ok]]
    /\ registry' = IF nextId \in Ids THEN reg \cup {nextId} ELSE reg
    /\ child' = IF ok THEN [child EXCEPT ![nextId] = "alive"] ELSE child
    /\ lineage' = IF ok THEN [lineage EXCEPT ![nextId] = pv] ELSE lineage
    /\ nextId' = IF ok THEN nextId + 1 ELSE nextId

\* Mutation of StartProcess: the record is built but never stored.
StartProcessNoStore(reg, name, args, restart, pv, ok) ==
    IF ok
    THEN /\ rec' = [rec EXCEPT ![nextId] = NewRecord(name, args, restart)]
         /\ registry' = reg
         /\ child' = [child EXCEPT ![nextId] = "alive"]
         /\ lineage' = [lineage EXCEPT ![nextId] = pv]
         /\ nextId' = nextId + 1
    ELSE /\ registry' = reg
         /\ UNCHANGED <<rec, child, lineage, nextId>>

\* The body of StartProcess on top of registry `reg`: spawn, store.  pv is the
\* history entry of the new record; the caller of this operator launches the
\* watcher.
StartProcess(reg, name, args, restart, pv, ok) ==
    IF ok
    THEN /\ rec' = [rec EXCEPT ![nextId] = NewRecord(name, args, restart)]
         /\ registry' = reg \cup {nextId}
         /\ child' = [child EXCEPT ![nextId] = "alive"]
         /\ lineage' = [lineage EXCEPT ![nextId] = pv]
         /\ nextId' = nextId + 1
    ELSE /\ registry' = reg
         /\ UNCHANGED <<rec, child, lineage, nextId>>

\* A caller's StartProcess(name, args, restart).
CallStart(c) ==
    /\ ~panicked
    /\ CanCall(c)
    /\ \E ls \in LaunchSpecs, ok \in SpawnResults :
          /\ StartProcess(registry, ls.Name, ls.Args, ls.Restart,
                          [pred |-> 0, via |-> "start", rq |-> ls.Restart], ok)
          /\ IF ok
             THEN Returns([thr EXCEPT ![nextId] = WatcherTask(nextId)],
                          c, Enter("Start", 0), "ok", nextId, ls.Restart)
             ELSE Returns(thr, c, Enter("Start", 0), "spawnfailed", 0, ls.Restart)
    /\ calls' = calls + 1
    /\ UNCHANGED mon
    /\ UNCHANGED <<shutdown, leaked, panicked, stopped>>

\* ---------------------------------------------------------------- the child
\* The child exits on its own.
ChildExit(i) ==
    /\ child[i] = "alive"
    /\ child' = [child EXCEPT ![i] = "zombie"]
    /\ ev' = NoEvent
    /\ UNCHANGED mon
    /\ UNCHANGED <<registry, rec, nextId, shutdown, thr, leaked, panicked,
                   lineage, stopped, calls>>

\* ---------------------------------------------------------------- StopProcess
\* StopProcess(u) up to the grace sleep inside killProcess: Load, clear
\* Restart, and if Running send SIGTERM to the group.
StopLoad(c, me) ==
    LET u == me.id IN
    IF u \notin registry
    THEN /\ Returns(thr, c, me, "notfound", 0, FALSE)
         /\ UNCHANGED <<registry, rec, child, stopped>>
    ELSE /\ rec' = [rec EXCEPT ![u].Restart = FALSE]
         /\ IF rec[u].Running
            THEN \E o \in SigTerm(child[u]) :
                   /\ child' = [child EXCEPT ![u] = o.child]
                   /\ IF o.err = "ESRCH"
                      THEN /\ registry' = Delete(registry, u)
                           /\ stopped' = stopped \cup {u}
                           /\ Returns(thr, c, me, "ok", 0, FALSE)
                      ELSE /\ Goes(c, [me EXCEPT !.pc = "sp_probe"])
                           /\ UNCHANGED <<registry, stopped>>
            ELSE /\ registry' = Delete(registry, u)
                 /\ stopped' = stopped \cup {u}
                 /\ Returns(thr, c, me, "ok", 0, FALSE)
                 /\ UNCHANGED child

\* A caller's StopProcess(u).
CallStop(c, u) ==
    /\ ~panicked
    /\ CanCall(c)
    /\ u \in Nameable
    /\ calls' = calls + 1
    /\ StopLoad(c, Enter("Stop", u))
    /\ UNCHANGED mon
    /\ UNCHANGED <<nextId, shutdown, leaked, panicked, lineage>>

\* Mutation of StopProbe: the record is deleted even when the stop failed.
StopProbeFailDeletes(c) ==
    /\ ~panicked
    /\ c \in Callers
    /\ thr[c].pc = "sp_probe"
    /\ LET u == thr[c].id IN
       \E o \in KillAfterGrace(child[u]) :
         /\ child' = [child EXCEPT ![u] = o.child]
         /\ \E running \in IsProcessRunning(o.child) :
              IF o.err # "nil" /\ running
              THEN /\ Returns(thr, c, thr[c], "stopfailed", 0, FALSE)
                   /\ registry' = Delete(registry, u)
                   /\ UNCHANGED stopped
              ELSE /\ Returns(thr, c, thr[c], "ok", 0, FALSE)
                   /\ registry' = Delete(registry, u)
                   /\ stopped' = stopped \cup {u}
    /\ UNCHANGED mon
    /\ UNCHANGED <<rec, nextId, shutdown, leaked, panicked, lineage, calls>>

\* StopProcess after the grace sleep: the rest of killProcess, the liveness
\* probe on a kill error, and the Delete.
StopProbe(c) ==
    /\ ~panicked
    /\ c \in Callers
    /\ thr[c].pc = "sp_probe"
    /\ LET u == thr[c].id IN
       \E o \in KillAfterGrace(child[u]) :
         /\ child' = [child EXCEPT ![u] = o.child]
         /\ \E running \in IsProcessRunning(o.child) :
              IF o.err # "nil" /\ running
              THEN /\ Returns(thr, c, thr[c], "stopfailed", 0, FALSE)
                   /\ UNCHANGED <<registry, stopped>>
              ELSE /\ Returns(thr, c, thr[c], "ok", 0, FALSE)
                   /\ registry' = Delete(registry, u)
                   /\ stopped' = stopped \cup {u}
    /\ UNCHANGED mon
    /\ UNCHANGED <<rec, nextId, shutdown, leaked, panicked, lineage, calls>>

\* ---------------------------------------------------------------- RestartProcess
\* RestartProcess(u) up to the grace sleep inside killProcess, run by task t
\* whose record on entry is `me`: Load, and if Running send SIGTERM.
RestartLoad(t, me) ==
    LET u == me.id IN
    IF u \notin registry
    THEN /\ Returns(thr, t, me, "notfound", 0, FALSE)
         /\ UNCHANGED child
    ELSE IF rec[u].Running
    THEN \E o \in SigTerm(child[u]) :
           /\ child' = [child EXCEPT ![u] = o.child]
           /\ Goes(t, [me EXCEPT !.pc = IF o.err = "ESRCH" THEN "rp_start"
                                                            ELSE "rp_probe"])
    ELSE /\ Goes(t, [me EXCEPT !.pc = "rp_start"])
         /\ UNCHANGED child

\* A caller's RestartProcess(u).
CallRestart(c, u) ==
    /\ ~panicked
    /\ CanCall(c)
    /\ u \in Nameable
    /\ calls' = calls + 1
    /\ RestartLoad(c, [Enter("Restart", u) EXCEPT !.n0 = rec[u].RestartCount])
    /\ UNCHANGED mon
    /\ UNCHANGED <<registry, rec, nextId, shutdown, leaked, panicked, lineage, stopped>>

\* RestartProcess after the grace sleep of killProcess: probe and SIGKILL; a
\* kill error makes RestartProcess return it.
RestartProbe(t) ==
    /\ ~panicked
    /\ thr[t].pc = "rp_probe"
    /\ LET u == thr[t].id IN
       \E o \in KillAfterGrace(child[u]) :
         /\ child' = [child EXCEPT ![u] = o.child]
         /\ IF o.err = "nil"
            THEN Goes(t, [thr[t] EXCEPT !.pc = "rp_start"])
            ELSE Returns(thr, t, thr[t], "stopfailed", 0, FALSE)
    /\ UNCHANGED mon
    /\ UNCHANGED <<registry, rec, nextId, shutdown, leaked, panicked, lineage,
                   stopped, calls>>

\* Mutation of RestartStart: a refused spawn stores the old record again.
RestartStartRestores(t) ==
    /\ ~panicked
    /\ thr[t].pc = "rp_start"
    /\ LET u == thr[t].id
           how == IF t \in Callers THEN "explicit" ELSE "auto"
           ls == LaunchSpecOf(rec[u])
       IN
       \E ok \in SpawnResults :
         /\ StartProcess(IF ok THEN Delete(registry, u) ELSE registry \cup {u},
                         ls.Name, ls.Args, ls.Restart,
                         [pred |-> u, via |-> how, rq |-> ls.Restart], ok)
         /\ IF ok
            THEN /\ thr' = [thr EXCEPT
                              ![t] = [thr[t] EXCEPT !.pc = "rp_count", !.new = nextId],
                              ![nextId] = WatcherTask(nextId)]
                 /\ ev' = [NoEvent EXCEPT !.kind = "spawn", !.by = t, !.op = "Restart",
                                          !.id = u, !.new = nextId]
            ELSE Returns(thr, t, thr[t], "spawnfailed", 0, FALSE)
    /\ UNCHANGED mon
    /\ UNCHANGED <<shutdown, leaked, panicked, stopped, calls>>

\* RestartProcess after its own 100ms pause: Delete(u), then StartProcess with
\* the old record's Name, Args and Restart as they are now.
RestartStart(t) ==
    /\ ~panicked
    /\ thr[t].pc = "rp_start"
    /\ LET u == thr[t].id
           how == IF t \in Callers THEN "explicit" ELSE "auto"
           ls == LaunchSpecOf(rec[u])
       IN
       \E ok \in SpawnResults :
         /\ StartProcess(Delete(registry, u), ls.Name, ls.Args, ls.Restart,
                         [pred |-> u, via |-> how, rq |-> ls.Restart], ok)
         /\ IF ok
            THEN /\ thr' = [thr EXCEPT
                              ![t] = [thr[t] EXCEPT !.pc = "rp_count", !.new = nextId],
                              ![nextId] = WatcherTask(nextId)]
                 /\ ev' = [NoEvent EXCEPT !.kind = "spawn", !.by = t, !.op = "Restart",
                                          !.id = u, !.new = nextId]
            ELSE Returns(thr, t, thr[t], "spawnfailed", 0, FALSE)
    /\ UNCHANGED mon
    /\ UNCHANGED <<shutdown, leaked, panicked, stopped, calls>>

\* Mutation of RestartCount: the count is written to every stored record.
RestartCountAll(t) ==
    /\ ~panicked
    /\ thr[t].pc = "rp_count"
    /\ LET u == thr[t].id
           n == thr[t].new
       IN /\ rec' = [j \in DOMAIN rec |->
                       IF j \in registry
                       THEN [rec[j] EXCEPT !.RestartCount = rec[u].RestartCount + 1]
                       ELSE rec[j]]
          /\ Returns(thr, t, thr[t], "ok", n, FALSE)
    /\ UNCHANGED mon
    /\ UNCHANGED <<registry, child, nextId, shutdown, leaked, panicked, lineage,
                   stopped, calls>>

\* Mutation of RestartCount: the old record's count is copied, not increased.
RestartCountCopies(t) ==
    /\ ~panicked
    /\ thr[t].pc = "rp_count"
    /\ LET u == thr[t].id
           n == thr[t].new
       IN /\ rec' = IF n \in registry
                    THEN [rec EXCEPT ![n].RestartCount = rec[u].RestartCount]
                    ELSE rec
          /\ Returns(thr, t, thr[t], "ok", n, FALSE)
    /\ UNCHANGED mon
    /\ UNCHANGED <<registry, child, nextId, shutdown, leaked, panicked, lineage,
                   stopped, calls>>

\* RestartProcess's last step: Load(newUUID) and write its RestartCount.
RestartCount(t) ==
    /\ ~panicked
    /\ thr[t].pc = "rp_count"
    /\ LET u == thr[t].id
           n == thr[t].new
       IN /\ rec' = IF n \in registry
                    THEN [rec EXCEPT ![n].RestartCount = rec[u].RestartCount + 1]
                    ELSE rec
          /\ Returns(thr, t, thr[t], "ok", n, FALSE)
    /\ UNCHANGED mon
    /\ UNCHANGED <<registry, child, nextId, shutdown, leaked, panicked, lineage,
                   stopped, calls>>

\* ---------------------------------------------------------------- monitorProcess
\* processInfo.Cmd.Wait() returns: the child has exited; the watcher reaps it
\* unless another wait took the exit status first.
WatchWait(i) ==
    /\ ~panicked
    /\ thr[i].pc = "wait"
    /\ child[i] \in {"zombie", "reaped"}
    /\ child' = [child EXCEPT ![i] = "reaped"]
    /\ Goes(i, [thr[i] EXCEPT !.pc = "mark"])
    /\ UNCHANGED mon
    /\ UNCHANGED <<registry, rec, nextId, shutdown, leaked, panicked, lineage,
                   stopped, calls>>

\* pm.mu is free for watcher i: no other watcher is between Lock and Unlock
\* (manager.go 240-243 is the only place that takes pm.mu).
MuFree(i) == \A j \in Ids \ {i} : thr[j].pc # "end"

\* Mutation of WatchMark: Running stays true.
WatchMarkKeepsRunning(i) ==
    /\ ~panicked
    /\ thr[i].pc = "mark"
    /\ MuFree(i)
    /\ rec' = rec
    /\ Goes(i, [thr[i] EXCEPT !.pc = "end"])
    /\ UNCHANGED mon
    /\ UNCHANGED <<registry, child, nextId, shutdown, leaked, panicked, lineage,
                   stopped, calls>>

\* pm.mu.Lock(); Running = false.  Only watchers take pm.mu, so the lock
\* keeps other watchers out but no reader between this write and the next.
WatchMark(i) ==
    /\ ~panicked
    /\ thr[i].pc = "mark"
    /\ MuFree(i)
    /\ rec' = [rec EXCEPT ![i].Running = FALSE]
    /\ Goes(i, [thr[i] EXCEPT !.pc = "end"])
    /\ UNCHANGED mon
    /\ UNCHANGED <<registry, child, nextId, shutdown, leaked, panicked, lineage,
                   stopped, calls>>

\* EndTime = now; pm.mu.Unlock().
WatchEnd(i) ==
    /\ ~panicked
    /\ thr[i].pc = "end"
    /\ rec' = [rec EXCEPT ![i].EndTime = 1]
    /\ Goes(i, [thr[i] EXCEPT !.pc = "decide"])
    /\ UNCHANGED mon
    /\ UNCHANGED <<registry, child, nextId, shutdown, leaked, panicked, lineage,
                   stopped, calls>>

\* Mutation of WatchDecide: the record that is not restarted is left in the
\* registry.
WatchDecideKeepsRecord(i) ==
    /\ ~panicked
    /\ thr[i].pc = "decide"
    /\ IF ~shutdown /\ rec[i].Restart
       THEN /\ rec' = [rec EXCEPT ![i].RestartCount = @ + 1]
            /\ Goes(i, [thr[i] EXCEPT !.pc = "sleep"])
       ELSE /\ Goes(i, DoneTask)
            /\ rec' = rec
    /\ UNCHANGED mon
    /\ UNCHANGED <<registry, child, nextId, shutdown, leaked, panicked, lineage,
                   stopped, calls>>

\* Mutation of WatchDecide: the select on pm.shutdown is left out.
WatchDecideIgnoresShutdown(i) ==
    /\ ~panicked
    /\ thr[i].pc = "decide"
    /\ IF rec[i].Restart
       THEN /\ rec' = [rec EXCEPT ![i].RestartCount = @ + 1]
            /\ Goes(i, [thr[i] EXCEPT !.pc = "sleep"])
            /\ registry' = registry
       ELSE /\ registry' = Delete(registry, i)
            /\ Goes(i, DoneTask)
            /\ rec' = rec
    /\ UNCHANGED mon
    /\ UNCHANGED <<child, nextId, shutdown, leaked, panicked, lineage, stopped, calls>>

\* The restart decision: the select on pm.shutdown (closed: delete the record
\* and return), then processInfo.Restart (set: count the restart and sleep;
\* clear: delete the record).
WatchDecide(i) ==
    /\ ~panicked
    /\ thr[i].pc = "decide"
    /\ IF ~shutdown /\ rec[i].Restart
       THEN /\ rec' = [rec EXCEPT ![i].RestartCount = @ + 1]
            /\ Goes(i, [thr[i] EXCEPT !.pc = "sleep"])
            /\ registry' = registry
       ELSE /\ registry' = Delete(registry, i)
            /\ Goes(i, DoneTask)
            /\ rec' = rec
    /\ UNCHANGED mon
    /\ UNCHANGED <<child, nextId, shutdown, leaked, panicked, lineage, stopped, calls>>

\* Mutation of WatchRecheck: a failed re-check returns without the Delete.
WatchRecheckKeepsRecord(i) ==
    /\ ~panicked
    /\ thr[i].pc = "sleep"
    /\ \A t \in Tasks : ~(thr[t].pc = "rp_count" /\ thr[t].new = i)
    /\ IF i \in registry /\ rec[i].Restart
       THEN /\ RestartLoad(i, [thr[i] EXCEPT !.n0 = rec[i].RestartCount])
            /\ registry' = registry
       ELSE /\ registry' = registry
            /\ Goes(i, DoneTask)
            /\ child' = child
    /\ UNCHANGED mon
    /\ UNCHANGED <<rec, nextId, shutdown, leaked, panicked, lineage, stopped, calls>>

\* Mutation of WatchRecheck: the record's Restart is not looked at again.
WatchRecheckIgnoresRestart(i) ==
    /\ ~panicked
    /\ thr[i].pc = "sleep"
    /\ \A t \in Tasks : ~(thr[t].pc = "rp_count" /\ thr[t].new = i)
    /\ IF i \in registry
       THEN /\ RestartLoad(i, [thr[i] EXCEPT !.n0 = rec[i].RestartCount])
            /\ registry' = registry
       ELSE /\ registry' = Delete(registry, i)
            /\ Goes(i, DoneTask)
            /\ child' = child
    /\ UNCHANGED mon
    /\ UNCHANGED <<rec, nextId, shutdown, leaked, panicked, lineage, stopped, calls>>

\* After the 2s sleep: if the record is still stored and its Restart still
\* set, call pm.RestartProcess(uuid); else delete the record.  The sleep
\* outlasts the two statements between the return of the StartProcess that
\* created this record and RestartProcess's write of its RestartCount.
WatchRecheck(i) ==
    /\ ~panicked
    /\ thr[i].pc = "sleep"
    /\ \A t \in Tasks : ~(thr[t].pc = "rp_count" /\ thr[t].new = i)
    /\ IF i \in registry /\ rec[i].Restart
       THEN /\ RestartLoad(i, [thr[i] EXCEPT !.n0 = rec[i].RestartCount])
            /\ registry' = registry
       ELSE /\ registry' = Delete(registry, i)
            /\ Goes(i, DoneTask)
            /\ child' = child
    /\ UNCHANGED mon
    /\ UNCHANGED <<rec, nextId, shutdown, leaked, panicked, lineage, stopped, calls>>

\* Mutation of CallWait: the wait is set up without looking the UUID up.
CallWaitNoLoad(c, u) ==
    /\ ~panicked
    /\ CanCall(c)
    /\ u \in Nameable
    /\ calls' = calls + 1
    /\ Goes(c, [Enter("Wait", u) EXCEPT !.pc = "wf_select"])
    /\ UNCHANGED mon
    /\ UNCHANGED <<registry, rec, child, nextId, shutdown, leaked, panicked,
                   lineage, stopped>>

\* ---------------------------------------------------------------- WaitForProcess
\* WaitForProcess(u, timeout): Load, then a goroutine calls Cmd.Process.Wait()
\* while the caller selects on its result and on the timeout.
CallWait(c, u) ==
    /\ ~panicked
    /\ CanCall(c)
    /\ u \in Nameable
    /\ calls' = calls + 1
    /\ IF u \notin registry
       THEN Returns(thr, c, Enter("Wait", u), "notfound", 0, FALSE)
       ELSE Goes(c, [Enter("Wait", u) EXCEPT !.pc = "wf_select"])
    /\ UNCHANGED mon
    /\ UNCHANGED <<registry, rec, child, nextId, shutdown, leaked, panicked,
                   lineage, stopped>>

\* Mutation of WaitDone: the waiting call marks the record as not running.
WaitDoneMarksRecord(c) ==
    /\ ~panicked
    /\ c \in Callers
    /\ thr[c].pc = "wf_select"
    /\ LET u == thr[c].id IN
       /\ child[u] \in {"zombie", "reaped"}
       /\ child' = [child EXCEPT ![u] = "reaped"]
       /\ rec' = [rec EXCEPT ![u].Running = FALSE]
       /\ Returns(thr, c, thr[c], IF child[u] = "zombie" THEN "ok" ELSE "waiterr",
                  0, FALSE)
    /\ UNCHANGED mon
    /\ UNCHANGED <<registry, nextId, shutdown, leaked, panicked, lineage,
                   stopped, calls>>

\* The goroutine's Process.Wait() returns and the caller receives its result:
\* nil if this wait reaped the child, an error if another wait already had.
WaitDone(c) ==
    /\ ~panicked
    /\ c \in Callers
    /\ thr[c].pc = "wf_select"
    /\ LET u == thr[c].id IN
       /\ child[u] \in {"zombie", "reaped"}
       /\ child' = [child EXCEPT ![u] = "reaped"]
       /\ Returns(thr, c, thr[c], IF child[u] = "zombie" THEN "ok" ELSE "waiterr",
                  0, FALSE)
    /\ UNCHANGED mon
    /\ UNCHANGED <<registry, rec, nextId, shutdown, leaked, panicked, lineage,
                   stopped, calls>>

\* ctx.Done() fires first: the caller returns the timeout error and the
\* goroutine stays blocked in Process.Wait().
WaitTimeout(c) ==
    /\ ~panicked
    /\ c \in Callers
    /\ thr[c].pc = "wf_select"
    /\ leaked' = leaked \cup {thr[c].id}
    /\ Returns(thr, c, thr[c], "timeout", 0, FALSE)
    /\ UNCHANGED mon
    /\ UNCHANGED <<registry, rec, child, nextId, shutdown, panicked, lineage,
                   stopped, calls>>

\* A goroutine left behind by a timed-out WaitForProcess gets its wait.
LeakedWait(u) ==
    /\ ~panicked
    /\ u \in leaked
    /\ child[u] \in {"zombie", "reaped"}
    /\ child' = [child EXCEPT ![u] = "reaped"]
    /\ leaked' = leaked \ {u}
    /\ ev' = NoEvent
    /\ UNCHANGED mon
    /\ UNCHANGED <<registry, rec, nextId, shutdown, thr, panicked, lineage,
                   stopped, calls>>

\* ---------------------------------------------------------------- StopAll
\* pm.processes.Range: one goroutine per stored record.  n0 keeps, as
\* history, the UUID supply at the time of the call.
StopAllRange(c, me) ==
    Goes(c, [me EXCEPT !.pc = "sa_fan", !.todo = registry, !.n0 = nextId])

\* A caller's StopAll().
CallStopAll(c) ==
    /\ ~panicked
    /\ CanCall(c)
    /\ calls' = calls + 1
    /\ StopAllRange(c, Enter("StopAll", 0))
    /\ UNCHANGED mon
    /\ UNCHANGED <<registry, rec, child, nextId, shutdown, leaked, panicked,
                   lineage, stopped>>

\* One StopAll goroutine up to the grace sleep inside killProcess: clear
\* Restart, and if Running send SIGTERM to the group.
StopAllKill(c, u) ==
    /\ ~panicked
    /\ c \in Callers
    /\ thr[c].pc = "sa_fan"
    /\ u \in thr[c].todo
    /\ rec' = [rec EXCEPT ![u].Restart = FALSE]
    /\ IF rec[u].Running
       THEN \E o \in SigTerm(child[u]) :
              /\ child' = [child EXCEPT ![u] = o.child]
              /\ Goes(c, [thr[c] EXCEPT
                            !.todo = @ \ {u},
                            !.mid = IF o.err = "ESRCH" THEN @ ELSE @ \cup {u}])
       ELSE /\ child' = child
            /\ Goes(c, [thr[c] EXCEPT !.todo = @ \ {u}])
    /\ UNCHANGED mon
    /\ UNCHANGED <<registry, nextId, shutdown, leaked, panicked, lineage,
                   stopped, calls>>

\* One StopAll goroutine after the grace sleep: probe and SIGKILL, the error
\* ignored.
StopAllProbe(c, u) ==
    /\ ~panicked
    /\ c \in Callers
    /\ thr[c].pc = "sa_fan"
    /\ u \in thr[c].mid
    /\ \E o \in KillAfterGrace(child[u]) :
         child' = [child EXCEPT ![u] = o.child]
    /\ Goes(c, [thr[c] EXCEPT !.mid = @ \ {u}])
    /\ UNCHANGED mon
    /\ UNCHANGED <<registry, rec, nextId, shutdown, leaked, panicked, lineage,
                   stopped, calls>>

\* wg.Wait() is over: pm.processes = sync.Map{}.  StopAll returns; Shutdown
\* goes on to pm.wg.Wait().
StopAllClear(c) ==
    /\ ~panicked
    /\ c \in Callers
    /\ thr[c].pc = "sa_fan"
    /\ thr[c].todo = {}
    /\ thr[c].mid = {}
    /\ registry' = {}
    /\ IF thr[c].op = "StopAll"
       THEN Returns(thr, c, thr[c], "ok", 0, FALSE)
       ELSE Goes(c, [thr[c] EXCEPT !.pc = "sd_wait"])
    /\ UNCHANGED mon
    /\ UNCHANGED <<rec, child, nextId, shutdown, leaked, panicked, lineage,
                   stopped, calls>>

\* ---------------------------------------------------------------- Shutdown
\* A caller's Shutdown(): close(pm.shutdown), which panics on a closed channel.
CallShutdown(c) ==
    /\ ~panicked
    /\ CanCall(c)
    /\ calls' = calls + 1
    /\ IF shutdown
       THEN /\ panicked' = TRUE
            /\ Goes(c, [Enter("Shutdown", 0) EXCEPT !.pc = "panic"])
            /\ UNCHANGED shutdown
       ELSE /\ shutdown' = TRUE
            /\ Goes(c, [Enter("Shutdown", 0) EXCEPT !.pc = "sd_range"])
            /\ UNCHANGED panicked
    /\ UNCHANGED mon
    /\ UNCHANGED <<registry, rec, child, nextId, leaked, lineage, stopped>>

\* Shutdown's call pm.StopAll().
ShutdownStopAll(c) ==
    /\ ~panicked
    /\ c \in Callers
    /\ thr[c].pc = "sd_range"
    /\ StopAllRange(c, thr[c])
    /\ UNCHANGED mon
    /\ UNCHANGED <<registry, rec, child, nextId, shutdown, leaked, panicked,
                   lineage, stopped, calls>>

\* Mutation of ShutdownWait: Shutdown returns without pm.wg.Wait().
ShutdownWaitNoWait(c) ==
    /\ ~panicked
    /\ c \in Callers
    /\ thr[c].pc = "sd_wait"
    /\ Returns(thr, c, thr[c], "ok", 0, FALSE)
    /\ UNCHANGED mon
    /\ UNCHANGED <<registry, rec, child, nextId, shutdown, leaked, panicked,
                   lineage, stopped, calls>>

\* pm.wg.Wait() returns once every launched watcher has returned.
ShutdownWait(c) ==
    /\ ~panicked
    /\ c \in Callers
    /\ thr[c].pc = "sd_wait"
    /\ \A i \in Ids : thr[i].pc \in {"idle", "done"}
    /\ Returns(thr, c, thr[c], "ok", 0, FALSE)
    /\ UNCHANGED mon
    /\ UNCHANGED <<registry, rec, child, nextId, shutdown, leaked, panicked,
                   lineage, stopped, calls>>

\* ---------------------------------------------------------------- ListProcesses
\* The UUIDs in sequence q.
Elems(q) == {q[k] : k \in DOMAIN q}

\* What a slice of record pointers shows: the records as they are now.
Shows(q) == [k \in DOMAIN q |-> rec[q[k]]]

\* A caller's ListProcesses(): pm.processes.Range begins.  todo holds the
\* keys stored when it begins.
CallList(c) ==
    /\ ~panicked
    /\ CanCall(c)
    /\ calls' = calls + 1
    /\ Goes(c, [Enter("List", 0) EXCEPT !.pc = "lp_range", !.todo = registry])
    /\ UNCHANGED mon
    /\ UNCHANGED <<registry, rec, child, nextId, shutdown, leaked, panicked,
                   lineage, stopped>>

\* Range visits a key it has not visited, stored now, and the callback
\* appends the record pointer.  sync.Map.Range is no snapshot: a key stored or
\* deleted during the call is visited or not.
ListVisit(c, u) ==
    /\ ~panicked
    /\ c \in Callers
    /\ thr[c].pc = "lp_range"
    /\ u \in registry
    /\ u \notin Elems(thr[c].list)
    /\ Goes(c, [thr[c] EXCEPT !.list = Append(@, u)])
    /\ UNCHANGED mon
    /\ UNCHANGED <<registry, rec, child, nextId, shutdown, leaked, panicked,
                   lineage, stopped, calls>>

\* Range is over once every key stored from its beginning to now has been
\* visited: ListProcesses returns the slice.
ListReturn(c) ==
    /\ ~panicked
    /\ c \in Callers
    /\ thr[c].pc = "lp_range"
    /\ (thr[c].todo \cap registry) \subseteq Elems(thr[c].list)
    /\ thr' = [thr EXCEPT ![c] = [IdleTask EXCEPT !.list = thr[c].list,
                                                  !.snap = Shows(thr[c].list)]]
    /\ ev' = [NoEvent EXCEPT !.kind = "ret", !.by = c, !.op = "List", !.res = "ok"]
    /\ UNCHANGED mon
    /\ UNCHANGED <<registry, rec, child, nextId, shutdown, leaked, panicked,
                   lineage, stopped, calls>>

\* AddProcess(pid, name) on monitor m, under m.mu: nothing if pid is already
\* monitored, else the name is stored and an empty history made.
AddProcess(m, p, name) ==
    IF p \in m.pids
    THEN m
    ELSE [m EXCEPT !.pids = @ \cup {p}, !.names[p] = name,
                   !.has = @ \cup {p}, !.hist[p] = <<>>]

\* delete(m.monitoredProcesses, pid); delete(m.statsHistory, pid).
Forget(m, p) ==
    [m EXCEPT !.pids = @ \ {p}, !.names[p] = "none",
              !.has = @ \ {p}, !.hist[p] = <<>>]

\* RemoveProcess(pid) on monitor m, under m.mu: nothing if pid is not
\* monitored, else both map entries are deleted.
RemoveProcess(m, p) ==
    IF p \notin m.pids THEN m ELSE Forget(m, p)

\* collectStats's deletes for every PID of S.
RECURSIVE ForgetAll(_, _)
ForgetAll(m, S) ==
    IF S = {} THEN m
    ELSE LET p == CHOOSE q \in S : TRUE IN ForgetAll(Forget(m, p), S \ {p})

\* ---------------------------------------------------------------- the monitor
\* ProcessMonitorManager.Start(), under m.mu: an error if running, else
\* running = true and a sampling loop is launched.
MonitorStart(c) ==
    /\ ~panicked
    /\ CanCall(c)
    /\ calls' = calls + 1
    /\ IF mon.running
       THEN /\ Returns(thr, c, Enter("MonStart", 0), "alreadyrunning", 0, FALSE)
            /\ UNCHANGED mon
       ELSE /\ Returns(thr, c, Enter("MonStart", 0), "ok", 0, FALSE)
            /\ mon' = [mon EXCEPT !.running = TRUE, !.loops = @ + 1]
    /\ UNCHANGED <<registry, rec, child, nextId, shutdown, leaked, panicked,
                   lineage, stopped>>

\* Mutation of MonitorStop: stopChan is closed whether running or not.
MonitorStopNoCheck(c) ==
    /\ ~panicked
    /\ CanCall(c)
    /\ calls' = calls + 1
    /\ IF mon.closed
       THEN /\ panicked' = TRUE
            /\ Goes(c, [Enter("MonStop", 0) EXCEPT !.pc = "panic"])
            /\ UNCHANGED mon
       ELSE /\ Returns(thr, c, Enter("MonStop", 0), "ok", 0, FALSE)
            /\ mon' = [mon EXCEPT !.running = FALSE, !.closed = TRUE]
            /\ UNCHANGED panicked
    /\ UNCHANGED <<registry, rec, child, nextId, shutdown, leaked, lineage,
                   stopped>>

\* ProcessMonitorManager.Stop(), under m.mu: an error if not running, else
\* close(m.stopChan), which panics on a closed channel, and running = false.
MonitorStop(c) ==
    /\ ~panicked
    /\ CanCall(c)
    /\ calls' = calls + 1
    /\ IF ~mon.running
       THEN /\ Returns(thr, c, Enter("MonStop", 0), "notrunning", 0, FALSE)
            /\ UNCHANGED <<mon, panicked>>
       ELSE IF mon.closed
       THEN /\ panicked' = TRUE
            /\ Goes(c, [Enter("MonStop", 0) EXCEPT !.pc = "panic"])
            /\ UNCHANGED mon
       ELSE /\ Returns(thr, c, Enter("MonStop", 0), "ok", 0, FALSE)
            /\ mon' = [mon EXCEPT !.running = FALSE, !.closed = TRUE]
            /\ UNCHANGED panicked
    /\ UNCHANGED <<registry, rec, child, nextId, shutdown, leaked, lineage,
                   stopped>>

\* A sampling loop receives from the closed stopChan and returns.
MonitorLoopExit ==
    /\ ~panicked
    /\ mon.loops > (IF mon.todo = {} THEN 0 ELSE 1)
    /\ mon.closed
    /\ mon' = [mon EXCEPT !.loops = @ - 1]
    /\ ev' = NoEvent
    /\ UNCHANGED <<registry, rec, child, nextId, shutdown, thr, leaked, panicked,
                   lineage, stopped, calls>>

\* The PIDs getProcessStats fails for: no /proc/<pid> (a zombie still has one).
Gone == {p \in Ids : ~Exists(child[p])}

\* A tick of a sampling loop as the facade's registry sees it: collectStats
\* drops the monitored PIDs whose process is gone.  The samples a tick stores
\* are followed step by step in MonitorSpec (CollectSnapshot, CollectSample).
CollectStats ==
    /\ ~panicked
    /\ mon.loops > 0
    /\ mon.pids \cap Gone # {}
    /\ mon' = ForgetAll(mon, mon.pids \cap Gone)
    /\ ev' = NoEvent
    /\ UNCHANGED <<registry, rec, child, nextId, shutdown, thr, leaked, panicked,
                   lineage, stopped, calls>>

\* The configurations callers pass to UpdateConfig: Interval in
\* milliseconds, below and at one second; HistorySize below 1 and above.
Configs == [Interval : {500, 1000}, HistorySize : {0, 1, 2}]

\* Mutation of UpdateConfig: the configuration is taken over unchecked.
UpdateConfigNoCheck(m, cfg) ==
    [m EXCEPT !.config = cfg]

\* UpdateConfig(config) on monitor m, under m.mu: the configuration is
\* taken over if Interval >= 1s and HistorySize >= 1; histories are not
\* touched.
UpdateConfig(m, cfg) ==
    IF cfg.Interval < 1000 \/ cfg.HistorySize < 1
    THEN m
    ELSE [m EXCEPT !.config = cfg]

\* A caller's AddProcess(p, name); the event carries the PID.
CallAddProcess(c, p, name) ==
    /\ ~panicked
    /\ CanCall(c)
    /\ calls' = calls + 1
    /\ mon' = AddProcess(mon, p, name)
    /\ Returns(thr, c, Enter("AddProcess", p),
               IF p \in mon.pids THEN "already" ELSE "ok", 0, FALSE)
    /\ UNCHANGED <<registry, rec, child, nextId, shutdown, leaked, panicked,
                   lineage, stopped>>

\* A caller's RemoveProcess(p).
CallRemoveProcess(c, p) ==
    /\ ~panicked
    /\ CanCall(c)
    /\ calls' = calls + 1
    /\ mon' = RemoveProcess(mon, p)
    /\ Returns(thr, c, Enter("RemoveProcess", p),
               IF p \in mon.pids THEN "ok" ELSE "notmonitored", 0, FALSE)
    /\ UNCHANGED <<registry, rec, child, nextId, shutdown, leaked, panicked,
                   lineage, stopped>>

\* A caller's UpdateConfig(cfg); the event carries the arguments: the
\* Interval as id and the HistorySize as n0.
CallUpdateConfig(c, cfg) ==
    /\ ~panicked
    /\ CanCall(c)
    /\ calls' = calls + 1
    /\ mon' = UpdateConfig(mon, cfg)
    /\ Returns(thr, c,
               [Enter("UpdateConfig", cfg.Interval) EXCEPT !.n0 = cfg.HistorySize],
               IF cfg.Interval < 1000 THEN "badinterval"
               ELSE IF cfg.HistorySize < 1 THEN "badsize" ELSE "ok",
               0, FALSE)
    /\ UNCHANGED <<registry, rec, child, nextId, shutdown, leaked, panicked,
                   lineage, stopped>>

\* collectStats, first part, under m.mu.RLock: the monitored PIDs and the
\* configuration are copied.  (A tick with nothing monitored does nothing.)
CollectSnapshot ==
    /\ ~panicked
    /\ mon.loops > 0
    /\ mon.todo = {}
    /\ mon.pids # {}
    /\ mon.taken < MaxSamples
    /\ mon' = [mon EXCEPT !.todo = mon.pids,
                          !.snapSize = mon.config.HistorySize]
    /\ ev' = NoEvent
    /\ UNCHANGED <<registry, rec, child, nextId, shutdown, thr, leaked, panicked,
                   lineage, stopped, calls>>

\* The history h with sample x appended, cut to its last n samples.
Trimmed(h, x, n) ==
    LET g == Append(h, x)
        k == Len(g)
    IN IF k > n THEN SubSeq(g, k - n + 1, k) ELSE g

\* The locals of collectStats once PID p of its copy is dealt with.
Visited(m, p) ==
    [m EXCEPT !.todo = @ \ {p},
              !.snapSize = IF m.todo = {p} THEN 0 ELSE @]

\* collectStats, one PID p of the copy: getProcessStats(p) fails (the PID
\* need not be a live process: either outcome) and both map entries are
\* deleted under m.mu, or the sample is appended to statsHistory[p] under
\* m.mu and the history cut to the copied HistorySize.
CollectSample(p) ==
    /\ ~panicked
    /\ p \in mon.todo
    /\ \E ok \in BOOLEAN :
         IF ok
         THEN /\ mon.taken < MaxSamples
              /\ mon' = Visited([mon EXCEPT
                                   !.hist[p] = Trimmed(@, mon.taken + 1, mon.snapSize),
                                   !.has = @ \cup {p},
                                   !.taken = @ + 1], p)
         ELSE mon' = Visited(Forget(mon, p), p)
    /\ ev' = NoEvent
    /\ UNCHANGED <<registry, rec, child, nextId, shutdown, thr, leaked, panicked,
                   lineage, stopped, calls>>

\* ---------------------------------------------------------------- the facade
\* ProcessManagerWithMonitor.StartProcess: the engine's StartProcess; its
\* error is returned as it is.
FacadeStart(c) ==
    /\ ~panicked
    /\ CanCall(c)
    /\ \E ls \in LaunchSpecs, ok \in SpawnResults :
          /\ StartProcess(registry, ls.Name, ls.Args, ls.Restart,
                          [pred |-> 0, via |-> "start", rq |-> ls.Restart], ok)
          /\ IF ok
             THEN /\ thr' = [thr EXCEPT
                               ![nextId] = WatcherTask(nextId),
                               ![c] = [Enter("Start", 0) EXCEPT
                                         !.pc = "fs_add", !.new = nextId]]
                  /\ ev' = NoEvent
             ELSE Returns(thr, c, Enter("Start", 0), "spawnfailed", 0, ls.Restart)
    /\ calls' = calls + 1
    /\ UNCHANGED mon
    /\ UNCHANGED <<shutdown, leaked, panicked, stopped>>

\* ProcessManagerWithMonitor.StartProcess, after the engine returned the
\* UUID: GetProcess, and if the record is there AddProcess(PID, Name).
FacadeAdd(c) ==
    /\ ~panicked
    /\ c \in Callers
    /\ thr[c].pc = "fs_add"
    /\ LET n == thr[c].new IN
       /\ mon' = IF n \in registry THEN AddProcess(mon, n, rec[n].Name) ELSE mon
       /\ Returns(thr, c, thr[c], "ok", n, lineage[n].rq)
    /\ UNCHANGED <<registry, rec, child, nextId, shutdown, leaked, panicked,
                   lineage, stopped, calls>>

\* ProcessManagerWithMonitor.StopProcess: GetProcess, and if the record is
\* there RemoveProcess(PID); the engine's StopProcess comes next.
FacadeStop(c, u) ==
    /\ ~panicked
    /\ CanCall(c)
    /\ u \in Nameable
    /\ calls' = calls + 1
    /\ mon' = IF u \in registry THEN RemoveProcess(mon, u) ELSE mon
    /\ Goes(c, [Enter("Stop", u) EXCEPT !.pc = "fp_stop"])
    /\ UNCHANGED <<registry, rec, child, nextId, shutdown, leaked, panicked,
                   lineage, stopped>>

\* ProcessManagerWithMonitor.StopProcess: the engine's StopProcess, whose
\* result is returned.
FacadeStopEngine(c) ==
    /\ ~panicked
    /\ c \in Callers
    /\ thr[c].pc = "fp_stop"
    /\ StopLoad(c, [thr[c] EXCEPT !.pc = "idle"])
    /\ UNCHANGED mon
    /\ UNCHANGED <<nextId, shutdown, leaked, panicked, lineage, calls>>

\* ---------------------------------------------------------------- the system
\* Nothing runs after a panic of the Go runtime (every action but the
\* children's has the guard), but the children live on.
Next ==
    \/ \E i \in Ids : ChildExit(i)
    \/ \E c \in Callers : CallStart(c)
    \/ \E c \in Callers, u \in Ids : CallStop(c, u)
    \/ \E c \in Callers : StopProbe(c)
    \/ \E c \in Callers, u \in Ids : CallRestart(c, u)
    \/ \E t \in Tasks : RestartProbe(t)
    \/ \E t \in Tasks : RestartStart(t)
    \/ \E t \in Tasks : RestartCount(t)
    \/ \E i \in Ids : WatchWait(i)
    \/ \E i \in Ids : WatchMark(i)
    \/ \E i \in Ids : WatchEnd(i)
    \/ \E i \in Ids : WatchDecide(i)
    \/ \E i \in Ids : WatchRecheck(i)
    \/ \E c \in Callers, u \in Ids : CallWait(c, u)
    \/ \E c \in Callers : WaitDone(c)
    \/ \E c \in Callers : WaitTimeout(c)
    \/ \E u \in Ids : LeakedWait(u)
    \/ \E c \in Callers : CallStopAll(c)
    \/ \E c \in Callers, u \in Ids : StopAllKill(c, u)
    \/ \E c \in Callers, u \in Ids : StopAllProbe(c, u)
    \/ \E c \in Callers : StopAllClear(c)
    \/ \E c \in Callers : CallShutdown(c)
    \/ \E c \in Callers : ShutdownStopAll(c)
    \/ \E c \in Callers : ShutdownWait(c)

Spec == Init /\ [][Next]_vars

\* The Go scheduler runs every runnable goroutine: a watcher, a StopAll
\* goroutine or a caller inside an operation that can take its next step
\* eventually takes it (a sleep ends, a select with a timeout fires).  Nothing
\* is assumed of when callers call, of when children exit, or of the
\* goroutines a timed-out WaitForProcess leaves behind.
GoFairness ==
    /\ \A i \in Ids :
          /\ WF_vars(WatchWait(i))
          /\ WF_vars(WatchMark(i))
          /\ WF_vars(WatchEnd(i))
          /\ WF_vars(WatchDecide(i))
          /\ WF_vars(WatchRecheck(i))
    /\ \A t \in Tasks :
          /\ WF_vars(RestartProbe(t))
          /\ WF_vars(RestartStart(t))
          /\ WF_vars(RestartCount(t))
    /\ \A c \in Callers :
          /\ WF_vars(StopProbe(c))
          /\ WF_vars(WaitDone(c) \/ WaitTimeout(c))
          /\ WF_vars(\E u \in Ids : StopAllKill(c, u))
          /\ WF_vars(\E u \in Ids : StopAllProbe(c, u))
          /\ WF_vars(StopAllClear(c))
          /\ WF_vars(ShutdownStopAll(c))
          /\ WF_vars(ShutdownWait(c))

\* The manager with only MaxLiveCalls calls left to make.
FairInit == InitWith(MaxCalls - MaxLiveCalls)

FairSpec == FairInit /\ [][Next]_vars /\ GoFairness

\* The engine left alone: callers only start processes; nothing is stopped,
\* restarted by hand or shut down.  As in FairSpec, MaxLiveCalls calls
\* (here: StartProcess calls) are left to make.
NextAuto ==
    \/ \E i \in Ids : ChildExit(i)
    \/ \E c \in Callers : CallStart(c)
    \/ \E i \in Ids : WatchWait(i)
    \/ \E i \in Ids : WatchMark(i)
    \/ \E i \in Ids : WatchEnd(i)
    \/ \E i \in Ids : WatchDecide(i)
    \/ \E i \in Ids : WatchRecheck(i)
    \/ \E i \in Ids : RestartStart(i)
    \/ \E i \in Ids : RestartCount(i)

AutoSpec == FairInit /\ [][NextAuto]_vars /\ GoFairness

\* The engine behind the monitoring facade: StartProcess and StopProcess go
\* through ProcessManagerWithMonitor, RestartProcess is the engine's own (the
\* facade does not override it), and the monitor is started and stopped.
NextFacade ==
    \/ \E i \in Ids : ChildExit(i)
    \/ \E c \in Callers : FacadeStart(c)
    \/ \E c \in Callers : FacadeAdd(c)
    \/ \E c \in Callers, u \in Ids : FacadeStop(c, u)
    \/ \E c \in Callers : FacadeStopEngine(c)
    \/ \E c \in Callers : StopProbe(c)
    \/ \E c \in Callers, u \in Ids : CallRestart(c, u)
    \/ \E t \in Tasks : RestartProbe(t)
    \/ \E t \in Tasks : RestartStart(t)
    \/ \E t \in Tasks : RestartCount(t)
    \/ \E i \in Ids : WatchWait(i)
    \/ \E i \in Ids : WatchMark(i)
    \/ \E i \in Ids : WatchEnd(i)
    \/ \E i \in Ids : WatchDecide(i)
    \/ \E i \in Ids : WatchRecheck(i)
    \/ \E c \in Callers : MonitorStart(c)
    \/ \E c \in Callers : MonitorStop(c)
    \/ MonitorLoopExit
    \/ CollectStats

FacadeSpec == Init /\ [][NextFacade]_vars

\* The engine with callers that start and stop processes and list them.
NextList ==
    \/ \E i \in Ids : ChildExit(i)
    \/ \E c \in Callers : CallStart(c)
    \/ \E c \in Callers, u \in Ids : CallStop(c, u)
    \/ \E c \in Callers : StopProbe(c)
    \/ \E i \in Ids : WatchWait(i)
    \/ \E i \in Ids : WatchMark(i)
    \/ \E i \in Ids : WatchEnd(i)
    \/ \E i \in Ids : WatchDecide(i)
    \/ \E i \in Ids : WatchRecheck(i)
    \/ \E i \in Ids : RestartStart(i)
    \/ \E i \in Ids : RestartCount(i)
    \/ \E c \in Callers : CallList(c)
    \/ \E c \in Callers, u \in Ids : ListVisit(c, u)
    \/ \E c \in Callers : ListReturn(c)

ListSpec == Init /\ [][NextList]_vars

\* The process monitor on its own: callers start and stop it, add and remove
\* PIDs and update the configuration while its loop samples.
NextMonitor ==
    \/ \E c \in Callers : MonitorStart(c)
    \/ \E c \in Callers : MonitorStop(c)
    \/ MonitorLoopExit
    \/ \E c \in Callers, p \in Ids, ls \in LaunchSpecs : CallAddProcess(c, p, ls.Name)
    \/ \E c \in Callers, p \in Ids : CallRemoveProcess(c, p)
    \/ \E c \in Callers, cfg \in Configs : CallUpdateConfig(c, cfg)
    \/ CollectSnapshot
    \/ \E p \in Ids : CollectSample(p)

MonitorSpec == Init /\ [][NextMonitor]_vars

\* ================================================================ claims
\* The step just taken was task-level return `o` with result `r`.
Returned(o, r) == ev.kind = "ret" /\ ev.op = o /\ ev.res = r

\* Everything StartProcess, StopProcess, RestartProcess and WaitForProcess
\* could touch besides the caller's own task: the registry, the records, the
\* children, the UUID supply, the watchers and the leftover wait goroutines.
engine == <<registry, rec, child, nextId, leaked, [i \in Ids |-> thr[i]]>>

C2_SpawnFailureLeavesNothing ==
    [][ (ev'.kind = "ret" /\ ev'.op = "Start" /\ ev'.res # "ok")
          => (ev'.res = "spawnfailed" /\ engine' = engine) ]_vars

\* A StartProcess has just failed while another record is registered.
C2_Witness ==
    /\ Returned("Start", "spawnfailed")
    /\ registry # {}
    /\ nextId <= MaxProcs

\* C3: a record started with Restart = false whose child has exited is
\* eventually absent from the registry (while the engine runs), and no
\* watcher ever creates a successor for such a record.
C3_NoRestartRemoved ==
    /\ \A i \in Ids :
          (i \in registry /\ ~lineage[i].rq /\ child[i] \in {"zombie", "reaped"})
             ~> (i \notin registry \/ panicked)
    /\ [](\A n \in Ids : lineage[n].via = "auto" => lineage[lineage[n].pred].rq)

\* The only call so far started record 1 without restart; its child exited
\* on its own, the watcher removed the record and returned.
C3_Witness ==
    /\ calls = MaxCalls - MaxLiveCalls + 1
    /\ lineage[1].via = "start"
    /\ ~lineage[1].rq
    /\ child[1] = "reaped"
    /\ thr[1].pc = "done"
    /\ 1 \notin registry

\* The records created in place of record i.
Successors(i) == {m \in Ids : lineage[m].pred = i}

\* Record i, started with Restart = true, is registered and its child has exited.
ExitedWithRestart(i) ==
    i \in registry /\ lineage[i].rq /\ child[i] \in {"zombie", "reaped"}

\* Record i has been replaced in the registry by exactly one record with
\* another UUID, whose RestartCount is one greater than the one i shows.
Replaced(i) ==
    /\ i \notin registry
    /\ \E n \in registry :
          /\ n # i
          /\ Successors(i) = {n}
          /\ rec[n].RestartCount = rec[i].RestartCount + 1

\* The re-spawn of record i was refused: i is gone and nothing replaced it.
RespawnRefused(i) ==
    /\ i \notin registry
    /\ thr[i].pc = "done"
    /\ Successors(i) = {}

CallBegins(o, u) ==
    /\ calls' = calls + 1
    /\ \/ ev'.kind = "ret" /\ ev'.by \in Callers /\ ev'.op = o /\ ev'.id = u
       \/ \E c \in Callers :
            /\ thr[c].pc = "idle"
            /\ thr'[c].pc # "idle"
            /\ thr'[c].op = o
            /\ thr'[c].id = u

\* C5: after a StopProcess(u) that returned success, u is not in the registry
\* and every later StopProcess(u) returns not-found at once, leaving the
\* registry, the records and every child as they were (nothing is signalled).
C5_StopIdempotent ==
    /\ [](stopped \cap registry = {})
    /\ [][ \A u \in stopped :
             CallBegins("Stop", u)
               => /\ ev'.kind = "ret"
                  /\ ev'.res = "notfound"
                  /\ engine' = engine
                  /\ stopped' = stopped ]_vars

\* A second StopProcess of a stopped record has returned not-found while
\* other records are registered.
C5_Witness ==
    /\ Returned("Stop", "notfound")
    /\ ev.id \in stopped
    /\ registry # {}

\* C6 as claimed: when StopProcess(u) returns success, u is not in the
\* registry and the child of u is no longer alive.
C6_StopKills ==
    Returned("Stop", "ok") => (ev.id \notin registry /\ child[ev.id] # "alive")

\* C7 as claimed: once StopProcess(u) has returned success, the watcher of u
\* spawns no child and registers no record as the successor of u.
C7_StopCancelsRestart ==
    (ev.kind = "spawn" /\ ev.by \in Ids) => ev.id \notin stopped

\* C8 as claimed, for a restart whose new record is still registered when the
\* call returns: a successful explicit RestartProcess(u) returns a new UUID
\* other than u, with u absent from the registry, and the new record's
\* RestartCount equal to the RestartCount of u at the time of the call plus one.
C8_ExplicitRestart ==
    (Returned("Restart", "ok") /\ ev.by \in Callers /\ ev.new \in registry)
      => /\ ev.new # ev.id
         /\ ev.id \notin registry
         /\ rec[ev.new].RestartCount = ev.n0 + 1

\* C9: every record created by a restart, explicit or by a watcher, has the
\* Name and Args of the record it replaces, and is created with that record's
\* Restart setting.
C9_RestartCopiesLaunchSpec ==
    /\ \A n \in Ids :
          lineage[n].pred # 0
            => /\ lineage[n].via \in {"explicit", "auto"}
               /\ rec[n].Name = rec[lineage[n].pred].Name
               /\ rec[n].Args = rec[lineage[n].pred].Args
    /\ ev.kind = "spawn"
         => /\ lineage[ev.new].pred = ev.id
            /\ rec[ev.new].Restart = rec[ev.id].Restart
            /\ lineage[ev.new].rq = rec[ev.id].Restart

\* A watcher has just re-spawned record 1, a "sleep 1" with Restart set, as
\* record 2.
C9_Witness ==
    /\ ev.kind = "spawn"
    /\ ev.by = 1
    /\ ev.new = 2
    /\ rec[1].Args = <<"1">>
    /\ rec[2].Args = <<"1">>
    /\ rec[2].Restart

\* C10: StopProcess, RestartProcess and WaitForProcess called with a UUID that
\* is not in the registry return the not-found error at once, and that call
\* leaves the registry, every record, every child and every watcher as they
\* were: nothing is spawned and nothing signalled.
C10_NotFoundChangesNothing ==
    /\ [][ \A u \in Ids : \A o \in {"Stop", "Restart", "Wait"} :
             (CallBegins(o, u) /\ u \notin registry)
               => /\ ev'.kind = "ret"
                  /\ ev'.res = "notfound" ]_vars
    /\ [][ (ev'.kind = "ret" /\ ev'.by \in Callers /\ ev'.res = "notfound")
             => /\ ev'.id \notin registry
                /\ engine' = engine
                /\ stopped' = stopped ]_vars

\* WaitForProcess of a UUID that was never handed out has returned not-found
\* while records are registered.
C10_Witness ==
    /\ Returned("Wait", "notfound")
    /\ ev.id = nextId
    /\ registry # {}

\* C11 as claimed, for the auto-restarts of the records that existed when
\* StopAll was called: when StopAll returns the registry is empty and no child
\* spawned by a watcher in place of such a record is alive.
C11_StopAllStopsAll ==
    Returned("StopAll", "ok")
      => /\ registry = {}
         /\ \A i \in Ids :
              (lineage[i].via = "auto" /\ lineage[i].pred < ev.n0)
                => child[i] # "alive"

\* C12 as claimed: however often Shutdown is invoked, pm.shutdown is never
\* closed twice and no invocation panics.
C12_ShutdownTwice ==
    ~panicked

\* The children that are alive.
Alive == {i \in Ids : child[i] = "alive"}

\* The watchers launched and not yet returned.
InFlight == {i \in Ids : thr[i].pc \notin {"idle", "done"}}

C14_ShutdownReturns ==
    \A c \in Callers :
      (thr[c].op = "Shutdown" /\ thr[c].pc # "idle")
        ~> \/ thr[c].pc = "idle"
           \/ panicked
           \/ \E i \in Alive : lineage[i].via # "auto"

\* No engine operation is in progress: no caller is inside a call and no
\* watcher is past its Cmd.Wait.
Quiescent ==
    /\ \A c \in Callers : thr[c].pc = "idle"
    /\ \A i \in Ids : thr[i].pc \in {"idle", "wait", "done"}

\* C15 as claimed, for the children of StartProcess calls that no StopProcess
\* was told to stop: whenever no engine operation is in progress, every such
\* child that is alive has its record in the registry.
C15_NoOrphan ==
    Quiescent
      => \A i \in Alive :
           (lineage[i].via = "start" /\ i \notin stopped) => i \in registry

\* C16 as claimed: the exit status of a child is retrieved by its watcher only;
\* no WaitForProcess reaps a child.
C16_OnlyWatcherWaits ==
    [][ \A i \in Ids :
          (child[i] = "zombie" /\ child'[i] = "reaped")
            => (thr[i].pc = "wait" /\ thr'[i].pc = "mark") ]_vars

\* C17: a WaitForProcess of a registered UUID returns the timeout error
\* exactly when its timeout fires before a completion is received, which can
\* happen only while the call is waiting; it returns another result only once
\* the child has exited, and then it can return; from call to return it leaves
\* the registry and the fields of every record as they were.
C17_WaitOutcome ==
    /\ [][ \A u \in Ids :
             (CallBegins("Wait", u) /\ u \in registry)
               => /\ \E c \in Callers : thr'[c].pc = "wf_select" /\ thr'[c].id = u
                  /\ registry' = registry
                  /\ rec' = rec ]_vars
    /\ [][ (ev'.kind = "ret" /\ ev'.op = "Wait" /\ ev'.res # "notfound")
             => /\ thr[ev'.by].pc = "wf_select"
                /\ registry' = registry
                /\ rec' = rec
                /\ ev'.res \in {"timeout", "ok", "waiterr"}
                /\ ev'.res = "timeout" => child' = child
                /\ ev'.res # "timeout" => child[ev'.id] \in {"zombie", "reaped"} ]_vars
    /\ [](\A c \in Callers :
            (~panicked /\ thr[c].pc = "wf_select"
               /\ child[thr[c].id] \in {"zombie", "reaped"})
              => ENABLED WaitDone(c))

\* WaitForProcess of record 1 has returned without error after the child
\* exited, the record still registered and marked running.
C17_Witness ==
    /\ Returned("Wait", "ok")
    /\ ev.id = 1
    /\ 1 \in registry
    /\ rec[1].Running

FacadeQuiescent ==
    /\ Quiescent
    /\ \A i \in Ids : thr[i].pc = "wait" => child[i] = "alive"
    /\ mon.pids \cap Gone = {}

\* C19 as claimed, for the records created by restarts: once the system is
\* quiescent, the PID of every such record in the registry is in the monitor's
\* monitored list.
C19_MonitorMirrorsRegistry ==
    FacadeQuiescent
      => \A i \in registry : lineage[i].pred # 0 => i \in mon.pids

\* A monitor call by a caller returns in this step.
MonitorReturns(o) ==
    ev'.kind = "ret" /\ ev'.op = o /\ calls' = calls + 1

\* C20: Start on a running monitor returns the already-running error and
\* launches no second sampling loop; Stop on a monitor that is not running
\* returns the not-running error and does not close stopChan; neither changes
\* the monitor, and neither panics.
C20_MonitorDoubleStartStop ==
    /\ [][ (MonitorReturns("MonStart") /\ mon.running)
             => (ev'.res = "alreadyrunning" /\ mon' = mon) ]_vars
    /\ [][ (MonitorReturns("MonStop") /\ ~mon.running)
             => (ev'.res = "notrunning" /\ mon' = mon) ]_vars
    /\ [][ (CallBegins("MonStart", 0) /\ mon.running)
             => (MonitorReturns("MonStart") /\ panicked' = panicked) ]_vars
    /\ [][ (CallBegins("MonStop", 0) /\ ~mon.running)
             => (MonitorReturns("MonStop") /\ panicked' = panicked) ]_vars

\* A second Stop in a row has returned the not-running error, after the
\* monitor was started and stopped.
C20_Witness ==
    /\ Returned("MonStop", "notrunning")
    /\ mon.closed
    /\ ~mon.running

\* C21: with pm.shutdown closed, a watcher that sees its child's exit marks
\* the record and then, whatever the record's Restart, deletes it from the
\* registry and returns: it counts no restart, spawns no child and creates no
\* record.
C21_ShutdownExitRemoves ==
    [][ \A i \in Ids :
          (shutdown /\ thr[i].pc \in {"wait", "mark", "end", "decide"}
             /\ thr'[i] # thr[i])
            => /\ thr'[i].pc \in {"mark", "end", "decide", "done"}
               /\ nextId' = nextId
               /\ lineage' = lineage
               /\ rec'[i].RestartCount = rec[i].RestartCount
               /\ thr[i].pc = "decide"
                    => /\ thr'[i] = DoneTask
                       /\ registry' = registry \ {i}
                       /\ child' = child ]_vars

\* After a StartProcess and a Shutdown, the watcher of record 1 has returned
\* with Restart still set: it counted no restart and nothing replaced the
\* record.
C21_Witness ==
    /\ shutdown
    /\ calls = 2
    /\ thr[1].pc = "done"
    /\ rec[1].Restart
    /\ rec[1].RestartCount = 0
    /\ 1 \notin registry
    /\ Successors(1) = {}

\* C22 as claimed: once pm.shutdown is closed no watcher spawns a child.
C22_NoRestartInShutdown ==
    (ev.kind = "spawn" /\ ev.by \in Ids) => ~shutdown

\* C23: the step a watcher takes after its restart delay enters RestartProcess
\* only if the record is registered under its UUID and its Restart is set; if
\* the record is gone or its Restart is clear (a StopProcess or StopAll came
\* first), the watcher returns with no child spawned, no record created and the
\* UUID absent from the registry.  A UUID a StopProcess succeeded for is never
\* restarted by a re-check that comes after.
C23_RecheckGuardsRestart ==
    /\ [][ \A i \in Ids :
             (thr[i].pc = "sleep" /\ thr'[i] # thr[i])
               => IF i \in registry /\ rec[i].Restart
                  THEN /\ thr'[i].pc \in {"rp_start", "rp_probe"}
                       /\ thr'[i].id = i
                       /\ registry' = registry
                  ELSE /\ thr'[i] = DoneTask
                       /\ registry' = registry \ {i}
                       /\ nextId' = nextId
                       /\ lineage' = lineage
                       /\ child' = child ]_vars
    /\ [][ \A i \in stopped :
             (thr[i].pc = "sleep" /\ thr'[i] # thr[i]) => thr'[i] = DoneTask ]_vars
    /\ [](\A i \in Ids :
            (~panicked /\ thr[i].pc = "sleep"
               /\ \A t \in Tasks : ~(thr[t].pc = "rp_count" /\ thr[t].new = i))
              => ENABLED WatchRecheck(i))

\* Record 1 was stopped while its watcher was in the restart delay; the
\* watcher, which had counted the restart, has returned and nothing replaced
\* the record.
C23_Witness ==
    /\ calls = 2
    /\ 1 \in stopped
    /\ thr[1].pc = "done"
    /\ rec[1].RestartCount = 1
    /\ ~rec[1].Restart
    /\ registry = {}
    /\ Successors(1) = {}

C25_WatcherDoneRecordGone ==
    /\ [][ \A i \in Ids :
             (thr[i].op = "watch" /\ thr[i].pc # "done" /\ thr'[i].pc = "done")
               => i \notin registry' ]_vars
    /\ [](\A i \in Ids : thr[i].pc = "done" => i \notin registry)

\* The watcher of record 1 has returned after restarting it as record 2, and
\* the watcher of record 2 has returned with nothing put in its place.
C25_Witness ==
    /\ thr[1].pc = "done"
    /\ Successors(1) = {2}
    /\ lineage[2].via = "auto"
    /\ thr[2].pc = "done"
    /\ Successors(2) = {}
    /\ registry = {}

\* C26 as claimed: no record is replaced by more than one successor, whatever
\* the interleaving of RestartProcess calls and the watcher's restart.
C26_OneSuccessor ==
    \A i \in Ids : Cardinality(Successors(i)) <= 1

\* C27: a UUID enters the registry only when it is handed out, so a UUID that
\* was handed out and is no longer in the registry never is again; and the
\* Running of a record that was created and is marked not running never turns
\* true again.
C27_NeverResurrected ==
    /\ [][ \A i \in Ids :
             (i \in registry' /\ i \notin registry)
               => (i = nextId /\ nextId' = nextId + 1) ]_vars
    /\ [][ \A i \in Ids :
             (i < nextId /\ i \notin registry) => i \notin registry' ]_vars
    /\ [][ \A i \in Ids :
             (i < nextId /\ ~rec[i].Running) => ~rec'[i].Running ]_vars
    /\ [][ nextId' >= nextId ]_vars

\* Record 1 has exited and was replaced by record 2, which has exited and was
\* removed too, while record 3 runs.
C27_Witness ==
    /\ 1 \notin registry
    /\ ~rec[1].Running
    /\ lineage[2].pred = 1
    /\ 2 \notin registry
    /\ ~rec[2].Running
    /\ registry = {3}
    /\ rec[3].Running

\* An access to field f of record u: a write or a read, made with pm.mu held
\* or not.  pm.mu is taken in one place, around the watcher's writes of
\* Running and EndTime.
FieldAccess(u, f, w, mu) == [u |-> u, f |-> f, w |-> w, mu |-> mu]

\* The field accesses of the next step of watcher i.
WatcherAccesses(i) ==
    IF thr[i].pc = "mark"
    THEN {FieldAccess(i, "Running", TRUE, TRUE)}
    ELSE IF thr[i].pc = "end"
    THEN {FieldAccess(i, "EndTime", TRUE, TRUE)}
    ELSE IF thr[i].pc = "decide" /\ ~shutdown
    THEN {FieldAccess(i, "Restart", FALSE, FALSE)}
         \cup (IF rec[i].Restart
               THEN {FieldAccess(i, "RestartCount", TRUE, FALSE)}
               ELSE {})
    ELSE IF thr[i].pc = "sleep" /\ i \in registry
    THEN {FieldAccess(i, "Restart", FALSE, FALSE)}
         \cup (IF rec[i].Restart
               THEN {FieldAccess(i, "Running", FALSE, FALSE)}
               ELSE {})
    ELSE {}

\* The field accesses of the next step of a task inside RestartProcess.
RestartAccesses(t) ==
    IF thr[t].pc = "rp_start"
    THEN {FieldAccess(thr[t].id, "Restart", FALSE, FALSE)}
    ELSE IF thr[t].pc = "rp_count"
    THEN {FieldAccess(thr[t].id, "RestartCount", FALSE, FALSE)}
         \cup (IF thr[t].new \in registry
               THEN {FieldAccess(thr[t].new, "RestartCount", TRUE, FALSE)}
               ELSE {})
    ELSE {}

\* The field accesses of the next step of calling context c: of the
\* goroutines of a StopAll in progress, or of the first step of a StopProcess
\* or RestartProcess that c can call now.
CallerAccesses(c) ==
    IF thr[c].pc = "sa_fan"
    THEN UNION { {FieldAccess(u, "Restart", TRUE, FALSE),
                  FieldAccess(u, "Running", FALSE, FALSE)} : u \in thr[c].todo }
    ELSE IF CanCall(c)
    THEN UNION { {FieldAccess(u, "Restart", TRUE, FALSE),
                  FieldAccess(u, "Running", FALSE, FALSE)} : u \in registry }
    ELSE {}

\* The field accesses task t is about to make.
Accesses(t) ==
    IF panicked
    THEN {}
    ELSE RestartAccesses(t)
         \cup (IF t \in Ids THEN WatcherAccesses(t) ELSE CallerAccesses(t))

\* A task of S and another task are about to access the same field of the
\* same record, one of them writing, and not both with pm.mu held.
Race(S) ==
    \E s \in S, t \in Tasks :
      /\ s # t
      /\ \E a \in Accesses(s), b \in Accesses(t) :
           /\ a.u = b.u
           /\ a.f = b.f
           /\ a.w \/ b.w
           /\ ~(a.mu /\ b.mu)

\* C28 as claimed, for the accesses of the watchers: no state is reachable in
\* which a watcher writes the Restart, RestartCount, Running or EndTime of its
\* record while another task reads or writes that field without
\* synchronization, or reads one while another task writes it.
C28_NoUnsynchronizedAccess ==
    ~Race(Ids)

\* C29 as claimed: Running = false and EndTime are set together in one atomic
\* step, so no task finds a record that was created and is marked not running
\* with a zero EndTime.
C29_ExitMarkedAtomically ==
    \A i \in Ids : (i < nextId /\ ~rec[i].Running) => rec[i].EndTime # 0

\* The OS states of a child.
ChildStates == {"none", "alive", "zombie", "reaped"}

\* C30: termination sends SIGTERM to the group first; the stage after the
\* grace sleep is reached only by a task that has sent SIGTERM to a group that
\* exists; SIGKILL is sent, and can kill or fail, only if the probe after the
\* sleep reports the process running, and when the probe says it is not,
\* termination returns nil and leaves the child as it is; a SIGTERM that finds
\* no group (ESRCH) ends the termination with success at once, without the
\* second stage.
C30_GracefulThenForceful ==
    /\ [](\A st \in ChildStates :
            /\ \A o \in SigTerm(st) : (o.err = "ESRCH") <=> ~Exists(st)
            /\ \A o \in KillAfterGrace(st) :
                 (o.child # st \/ o.err # "nil") => TRUE \in IsProcessRunning(st)
            /\ FALSE \in IsProcessRunning(st)
                 => [child |-> st, err |-> "nil"] \in KillAfterGrace(st)
            /\ ~Exists(st) => KillAfterGrace(st) = {[child |-> st, err |-> "nil"]})
    /\ [][ \A c \in Callers :
             (thr'[c].pc = "sp_probe" /\ thr[c].pc # "sp_probe")
               => LET u == thr'[c].id IN
                  /\ rec[u].Running
                  /\ Exists(child[u])
                  /\ child'[u] \in {child[u], "zombie"} ]_vars
    /\ [][ \A c \in Callers :
             (thr[c].pc = "sp_probe" /\ thr'[c].pc # "sp_probe")
               => LET u == thr[c].id IN
                  /\ child'[u] \in {o.child : o \in KillAfterGrace(child[u])}
                  /\ child'[u] # child[u] => (child[u] = "alive" /\ child'[u] = "zombie")
                  /\ ev'.res \in {"ok", "stopfailed"} ]_vars
    /\ [][ \A u \in Ids :
             (CallBegins("Stop", u) /\ u \in registry /\ rec[u].Running
                /\ ~Exists(child[u]))
               => /\ ev'.kind = "ret"
                  /\ ev'.res = "ok"
                  /\ child' = child ]_vars

\* StopProcess has returned success after both stages of the termination,
\* the second one taken after the grace sleep: the child is dead and its
\* watcher has not yet seen the exit.
C30_Witness ==
    /\ Returned("Stop", "ok")
    /\ calls = 2
    /\ child[ev.id] = "zombie"
    /\ thr[ev.id].pc = "wait"

\* C31: StopProcess of a registered record that is marked not running, or
\* whose group is gone when SIGTERM is sent, signals nothing, deletes the
\* record and returns success in that step; StopProcess returns the
\* stop-failed error only after the grace sleep, when the kill failed on a
\* process that still exists, and that return leaves the registry as it is.
C31_StopOfExited ==
    /\ [][ \A u \in Ids :
             (CallBegins("Stop", u) /\ u \in registry
                /\ (~rec[u].Running \/ ~Exists(child[u])))
               => /\ ev'.kind = "ret"
                  /\ ev'.res = "ok"
                  /\ child' = child
                  /\ registry' = registry \ {u} ]_vars
    /\ [][ (ev'.kind = "ret" /\ ev'.op = "Stop" /\ ev'.res = "stopfailed")
             => /\ thr[ev'.by].pc = "sp_probe"
                /\ Exists(child'[ev'.id])
                /\ child' = child
                /\ registry' = registry ]_vars

\* StopProcess has returned success for a record whose child had exited and
\* whose watcher is in the restart delay.
C31_Witness ==
    /\ Returned("Stop", "ok")
    /\ ~rec[ev.id].Running
    /\ child[ev.id] = "reaped"
    /\ thr[ev.id].pc = "sleep"
    /\ ev.id \notin registry

\* C32 as claimed, for the slice a caller holds after ListProcesses returned:
\* what the slice shows stays what it showed when it was returned, whatever
\* happens to the records afterwards.
C32_ListIsCopy ==
    \A c \in Callers : thr[c].pc = "idle" => Shows(thr[c].list) = thr[c].snap


\* This step is a step of task t in StopProcess(u), RestartProcess(u) or the
\* watcher of u (a watcher's own RestartProcess included).
ActsOn(t, u) ==
    \/ /\ t \in Ids
       /\ t = u
       /\ thr[t].op = "watch"
       /\ thr'[t] # thr[t]
    \/ /\ t \in Callers
       /\ thr[t].pc # "idle"
       /\ thr[t].op \in {"Stop", "Restart"}
       /\ thr[t].id = u
       /\ thr'[t] # thr[t]
    \/ /\ t \in Callers
       /\ thr[t].pc = "idle"
       /\ calls' = calls + 1
       /\ \/ ev'.kind = "ret" /\ ev'.by = t /\ ev'.op \in {"Stop", "Restart"}
             /\ ev'.id = u
          \/ thr'[t].pc # "idle" /\ thr'[t].op \in {"Stop", "Restart"}
             /\ thr'[t].id = u

\* Record j is the successor that task t's restart creates in this step or
\* has created and is about to write the RestartCount of.
SuccessorOf(t, j) ==
    \/ j = nextId /\ nextId' = nextId + 1 /\ thr'[t].pc = "rp_count"
       /\ thr'[t].new = j
    \/ thr[t].pc = "rp_count" /\ thr[t].new = j

\* Nothing of id j changes in this step: registry membership, record, child.
Untouched(j) ==
    /\ rec'[j] = rec[j]
    /\ (j \in registry') = (j \in registry)
    /\ child'[j] = child[j]

\* A step of StopProcess(u), RestartProcess(u) or the watcher of u leaves
\* every other id untouched, except the one successor its restart creates.
OtherIdsUntouched ==
    [][ \A t \in Tasks : \A u \in Ids :
          ActsOn(t, u) =>
            \A j \in Ids \ {u} : SuccessorOf(t, j) \/ Untouched(j) ]_vars

\* C33 (as stated), second half: a watcher that is to record its child's
\* exit can do so whatever is in progress on other ids.
C33_Original ==
    \A i \in Ids : (~panicked /\ thr[i].pc = "mark") => ENABLED WatchMark(i)

\* C33 (amended): other ids stay untouched, and every pending step of an
\* operation on one id can be taken whatever is in progress on other ids,
\* except that a watcher about to record its child's exit waits for pm.mu
\* while another watcher is between its two writes under pm.mu.  (The end of
\* the 2s sleep is not a step that waits for anything; it is left out.)
C33_FrameAndProgress ==
    /\ OtherIdsUntouched
    /\ [](~panicked =>
            /\ \A t \in Tasks :
                 /\ thr[t].pc = "sp_probe" => ENABLED StopProbe(t)
                 /\ thr[t].pc = "rp_probe" => ENABLED RestartProbe(t)
                 /\ (thr[t].pc = "rp_start" /\ nextId \in Ids)
                      => ENABLED RestartStart(t)
                 /\ thr[t].pc = "rp_count" => ENABLED RestartCount(t)
            /\ \A i \in Ids :
                 /\ (thr[i].pc = "wait" /\ child[i] \in {"zombie", "reaped"})
                      => ENABLED WatchWait(i)
                 /\ (thr[i].pc = "mark" /\ MuFree(i)) => ENABLED WatchMark(i)
                 /\ thr[i].pc = "end" => ENABLED WatchEnd(i)
                 /\ thr[i].pc = "decide" => ENABLED WatchDecide(i))

\* Witness for C33: a StopProcess on one id is past its SIGTERM while the
\* watcher of another record is between its two writes under pm.mu.
C33_Witness ==
    \E c \in Callers : \E i \in Ids :
       /\ thr[c].pc = "sp_probe"
       /\ thr[c].id # i
       /\ thr[i].pc = "end"


\* The number of restarts that led to record i: the length of its chain of
\* predecessors.
RECURSIVE RestartsBefore(_)
RestartsBefore(i) ==
    IF lineage[i].pred = 0 THEN 0 ELSE RestartsBefore(lineage[i].pred) + 1

\* C34 as claimed: a live record whose watcher is waiting on its child, and
\* whose RestartCount has been written by the restart that created it, shows
\* the number of restarts that led to it.
C34_CountsRestarts ==
    \A i \in registry :
       (thr[i].pc = "wait" /\ \A t \in Tasks : ~(thr[t].pc = "rp_count" /\ thr[t].new = i))
         => rec[i].RestartCount = RestartsBefore(i)


\* C35 as claimed, for the spawn failure: when a caller's RestartProcess(id)
\* returns the error of the failed spawn, record id is still in the registry.
C35_FailedRestartKeepsRecord ==
    (Returned("Restart", "spawnfailed") /\ ev.by \in Callers)
      => ev.id \in registry


\* C36 as claimed: whenever the monitor's running flag is set, a sampling
\* loop is there to take the ticks.
C36_RunningHasLoop == mon.running => mon.loops > 0


\* C37 as claimed: the PIDs that have a stats history are the monitored PIDs.
C37_HistoryMatchesMonitored == mon.has = mon.pids


\* C38 as claimed: no monitored PID has more samples stored than the
\* HistorySize of the configuration in force.
C38_HistoryWithinSize ==
    \A p \in mon.pids : Len(mon.hist[p]) <= mon.config.HistorySize


\* C39: the monitor's mutating operations fail without side effects.  An
\* UpdateConfig with an Interval below one second or a HistorySize below 1
\* returns an error and leaves the monitor as it was; an AddProcess of a
\* monitored PID returns an error and leaves the monitor (the PID's name and
\* history included) as it was; a RemoveProcess of a PID that is not monitored
\* returns an error and leaves the monitor as it was.
C39_FailedCallsChangeNothing ==
    /\ [][ (calls' = calls + 1 /\ ev'.kind = "ret" /\ ev'.op = "UpdateConfig"
              /\ (ev'.id < 1000 \/ ev'.n0 < 1))
             => (ev'.res \in {"badinterval", "badsize"} /\ mon' = mon) ]_vars
    /\ [][ (calls' = calls + 1 /\ ev'.kind = "ret" /\ ev'.op = "AddProcess"
              /\ ev'.id \in mon.pids)
             => (ev'.res = "already" /\ mon' = mon) ]_vars
    /\ [][ (calls' = calls + 1 /\ ev'.kind = "ret" /\ ev'.op = "RemoveProcess"
              /\ ev'.id \notin mon.pids)
             => (ev'.res = "notmonitored" /\ mon' = mon) ]_vars

\* Witness for C39: an AddProcess has just returned the error for a PID that
\* is monitored and has samples stored.
C39_Witness ==
    /\ Returned("AddProcess", "already")
    /\ ev.id \in mon.pids
    /\ mon.hist[ev.id] # <<>>
====
